---- MODULE Spec2Model ----
(***************************************************************************)
(* State-machine model of GameClient (src/game.js, lines 382-901): the     *)
(* world-state store, the camera, the keyboard and click-to-move command   *)
(* paths, the transport callbacks and the render clock.  Every action is   *)
(* one callback of the single-threaded client, run to completion.          *)
(*                                                                         *)
(* Coordinates are integers and viewport sizes are even, so that           *)
(* canvas.width / 2 is exact in integer arithmetic.                        *)
(***************************************************************************)
EXTENDS Integers, Sequences, FiniteSets, TLC

VARIABLES
    myPlayerId,        \* this.myPlayerId (NULL until a join succeeds)
    players,           \* this.players: id -> player record
    avatars,           \* this.avatars: name -> avatar definition
    cameraX, cameraY,  \* this.cameraX, this.cameraY
    canvasW, canvasH,  \* this.canvas.width, this.canvas.height
    keysPressed,       \* this.keysPressed
    isMoving,          \* this.isMoving
    clickTarget,       \* this.clickTarget (NoTarget or <<x, y>>)
    connectionStatus,  \* this.connectionStatus
    readyState,        \* this.websocket.readyState
    lastFrameTime,     \* this.lastFrameTime
    frameRequests,     \* requestAnimationFrame callbacks not yet run
    worldImage,        \* this.worldImage: "loading", "complete" or "broken"
    timers,            \* pending setTimeout callbacks of startMovingToTarget
    sent,              \* websocket.send calls of the last callback, in order
    lastEvent,         \* the last callback that ran, with its argument
    release            \* history: stop/move sends of the key releases since
                       \* the held set was {ArrowUp, ArrowRight}

worldVars == <<myPlayerId, players, avatars>>
camVars   == <<cameraX, cameraY>>
viewVars  == <<canvasW, canvasH>>
inputVars == <<keysPressed, isMoving, clickTarget, timers>>
connVars  == <<connectionStatus, readyState>>
loopVars  == <<lastFrameTime, frameRequests, worldImage>>
vars == <<myPlayerId, players, avatars, cameraX, cameraY, canvasW, canvasH,
          keysPressed, isMoving, clickTarget, connectionStatus, readyState,
          lastFrameTime, frameRequests, worldImage, timers, sent, lastEvent,
          release>>

NULL == "null"
NoTarget == <<>>

(***************************************************************************)
(* Program constants.                                                      *)
(***************************************************************************)
worldWidth == 2048
worldHeight == 2048
targetFPS == 60
ArrivalDistance == 20
HomingDelay == 200
CullMargin == 50
maxSize == 32
ArrowKeys == {"ArrowUp", "ArrowDown", "ArrowLeft", "ArrowRight"}

(***************************************************************************)
(* Bounds of the model.                                                    *)
(***************************************************************************)
MaxTime == 34      \* render-clock timestamps run up to MaxTime ms
MaxTimers == 2     \* at most MaxTimers homing timeouts are pending

Max(a, b) == IF a >= b THEN a ELSE b
Min(a, b) == IF a <= b THEN a ELSE b
Abs(a) == IF a >= 0 THEN a ELSE -a
Maps(D, R) == UNION {[S -> R] : S \in SUBSET D}
EmptyMap == [i \in {} |-> NULL]

(***************************************************************************)
(* Inputs of the environment.  A player record always carries x and y; the *)
(* other fields (here: facing) may be absent from a record on the wire.    *)
(***************************************************************************)
PlayerIds == {"p1", "p2"}
WorldRecs ==
    { [x |-> -100, y |-> 2500],
      [x |-> 1024, y |-> 1024, facing |-> "west"],
      [x |-> 2500, y |-> -50, facing |-> "east"] }
JoinRecs ==
    { [x |-> 1024, y |-> 1024, facing |-> "west"],
      [x |-> 2500, y |-> -50, facing |-> "east"] }
Viewports == {<<800, 600>>, <<1200, 2400>>, <<2048, 600>>}
AvatarDefs ==
    {[frames |-> [north |-> <<"n0">>, south |-> <<"s0", "s1">>,
                  east |-> <<"e0">>]]}
Catalogs == Maps({"fox"}, AvatarDefs)
WorldMessages ==
    {[action |-> "join_game", success |-> TRUE, playerId |-> id,
      players |-> ps, avatars |-> av] :
        id \in PlayerIds, ps \in Maps(PlayerIds, JoinRecs), av \in Catalogs}
    \cup {[action |-> "join_game", success |-> FALSE]}
    \cup {[action |-> "player_joined", id |-> id, player |-> p,
           avatarName |-> "fox", avatar |-> a] :
        id \in PlayerIds, p \in WorldRecs, a \in AvatarDefs}
    \cup {[action |-> "players_moved", players |-> ps] :
        ps \in Maps(PlayerIds, WorldRecs)}
    \cup {[action |-> "player_left", playerId |-> id] :
        id \in PlayerIds \cup {"p9"}}
    \cup {[action |-> "ping"]}
TickDeltas == {16, 17}

(***************************************************************************)
(* updateCamera: the camera after the call, as <<cameraX, cameraY>>.       *)
(***************************************************************************)
updateCameraNoFloor(pid, pl, w, h, cx, cy) ==
    IF pid = NULL \/ pid \notin DOMAIN pl
    THEN <<cx, cy>>
    ELSE LET centerX == pl[pid].x - w \div 2
             centerY == pl[pid].y - h \div 2
         IN  << IF worldWidth > w
                THEN Min(centerX, worldWidth - w)
                ELSE centerX,
                IF worldHeight > h
                THEN Min(centerY, worldHeight - h)
                ELSE centerY >>

updateCameraAlwaysClamp(pid, pl, w, h, cx, cy) ==
    IF pid = NULL \/ pid \notin DOMAIN pl
    THEN <<cx, cy>>
    ELSE << Max(0, Min(pl[pid].x - w \div 2, worldWidth - w)),
            Max(0, Min(pl[pid].y - h \div 2, worldHeight - h)) >>

updateCamera(pid, pl, w, h, cx, cy) ==
    IF pid = NULL \/ pid \notin DOMAIN pl
    THEN <<cx, cy>>
    ELSE LET centerX == pl[pid].x - w \div 2
             centerY == pl[pid].y - h \div 2
         IN  << IF worldWidth > w
                THEN Max(0, Min(centerX, worldWidth - w))
                ELSE centerX,
                IF worldHeight > h
                THEN Max(0, Min(centerY, worldHeight - h))
                ELSE centerY >>

(***************************************************************************)
(* parseAvatarImages: every avatar without parsed frames gets them; the    *)
(* image decoding of exactly those avatars is started by the call.         *)
(***************************************************************************)
SpriteDirections == {"north", "south", "east"}

ParsedFrames(frames) ==
    [d \in SpriteDirections |->
        [i \in DOMAIN frames[d] |->
            [src |-> frames[d][i], state |-> "loading"]]]

NeedsParse(av) == {n \in DOMAIN av : "parsedFrames" \notin DOMAIN av[n]}

parseAvatarImages(av) ==
    [n \in DOMAIN av |->
        IF n \in NeedsParse(av)
        THEN [frames |-> av[n].frames,
              parsedFrames |-> ParsedFrames(av[n].frames)]
        ELSE av[n]]

(***************************************************************************)
(* The browser finishes decoding one frame image: img.onload fires when    *)
(* the data decoded (ok), nothing is called when it did not.               *)
(***************************************************************************)
IsLoading(av, name, direction, index) ==
    /\ name \in DOMAIN av
    /\ "parsedFrames" \in DOMAIN av[name]
    /\ direction \in DOMAIN av[name].parsedFrames
    /\ index \in DOMAIN av[name].parsedFrames[direction]
    /\ av[name].parsedFrames[direction][index].state = "loading"

ImageDecodedFailureStopsRest(name, direction, index, ok) ==
    /\ IsLoading(avatars, name, direction, index)
    /\ avatars' =
         [avatars EXCEPT ![name].parsedFrames[direction] =
            [i \in DOMAIN @ |->
                IF i = index
                THEN [@[i] EXCEPT
                        !.state = IF ok THEN "complete" ELSE "broken"]
                ELSE IF ~ok /\ i > index /\ @[i].state = "loading"
                     THEN [@[i] EXCEPT !.state = "broken"]
                     ELSE @[i]]]
    /\ sent' = <<>>
    /\ lastEvent' = [kind |-> "image", name |-> name,
                     direction |-> direction, index |-> index, ok |-> ok]
    /\ UNCHANGED <<myPlayerId, players, camVars, viewVars, inputVars,
                   connVars, loopVars, release>>

ImageDecoded(name, direction, index, ok) ==
    /\ IsLoading(avatars, name, direction, index)
    /\ avatars' =
         [avatars EXCEPT ![name].parsedFrames[direction][index].state =
            IF ok THEN "complete" ELSE "broken"]
    /\ sent' = <<>>
    /\ lastEvent' = [kind |-> "image", name |-> name,
                     direction |-> direction, index |-> index, ok |-> ok]
    /\ UNCHANGED <<myPlayerId, players, camVars, viewVars, inputVars,
                   connVars, loopVars, release>>

(***************************************************************************)
(* Object.assign(this.players, message.players).                           *)
(***************************************************************************)
ObjectAssignMergeFields(target, source) ==
    [id \in DOMAIN target \cup DOMAIN source |->
        IF id \in DOMAIN source /\ id \in DOMAIN target
        THEN [f \in DOMAIN target[id] \cup DOMAIN source[id] |->
                IF f \in DOMAIN source[id]
                THEN source[id][f] ELSE target[id][f]]
        ELSE IF id \in DOMAIN source THEN source[id] ELSE target[id]]

ObjectAssign(target, source) ==
    [id \in DOMAIN target \cup DOMAIN source |->
        IF id \in DOMAIN source THEN source[id] ELSE target[id]]

(***************************************************************************)
(* delete this.players[id].                                                *)
(***************************************************************************)
DeleteSplice(target, id) ==
    IF id \in DOMAIN target \/ DOMAIN target = {}
    THEN [i \in DOMAIN target \ {id} |-> target[i]]
    ELSE LET last == CHOOSE i \in DOMAIN target : TRUE
         IN  [i \in DOMAIN target \ {last} |-> target[i]]

Delete(target, id) == [i \in DOMAIN target \ {id} |-> target[i]]

(***************************************************************************)
(* handleServerMessage: the roster, the local id and the catalog after the *)
(* message, the avatar names whose decoding the message starts, then the   *)
(* camera when the branch calls updateCamera.                              *)
(***************************************************************************)
PlayersAfterUnknownClears(message) ==
    CASE message.action = "join_game" ->
            IF message.success THEN message.players ELSE players
      [] message.action = "player_joined" ->
            ObjectAssign(players, [i \in {message.id} |-> message.player])
      [] message.action = "players_moved" ->
            ObjectAssign(players, message.players)
      [] message.action = "player_left" ->
            Delete(players, message.playerId)
      [] OTHER -> EmptyMap

PlayersAfter(message) ==
    CASE message.action = "join_game" ->
            IF message.success THEN message.players ELSE players
      [] message.action = "player_joined" ->
            ObjectAssign(players, [i \in {message.id} |-> message.player])
      [] message.action = "players_moved" ->
            ObjectAssign(players, message.players)
      [] message.action = "player_left" ->
            Delete(players, message.playerId)
      [] OTHER -> players

MyPlayerIdAfter(message) ==
    IF message.action = "join_game" /\ message.success
    THEN message.playerId
    ELSE myPlayerId

AvatarsAfter(message) ==
    CASE message.action = "join_game" ->
            IF message.success
            THEN parseAvatarImages(message.avatars)
            ELSE avatars
      [] message.action = "player_joined" ->
            parseAvatarImages(
                ObjectAssign(avatars,
                    [n \in {message.avatarName} |-> message.avatar]))
      [] OTHER -> avatars

DecodeStarted(message) ==
    CASE message.action = "join_game" ->
            IF message.success THEN NeedsParse(message.avatars) ELSE {}
      [] message.action = "player_joined" ->
            NeedsParse(
                ObjectAssign(avatars,
                    [n \in {message.avatarName} |-> message.avatar]))
      [] OTHER -> {}

CallsUpdateCamera(message) ==
    \/ message.action = "join_game" /\ message.success
    \/ message.action = "players_moved"

handleServerMessage(message) ==
    /\ readyState = "OPEN"
    /\ myPlayerId' = MyPlayerIdAfter(message)
    /\ players' = PlayersAfter(message)
    /\ avatars' = AvatarsAfter(message)
    /\ LET cam == IF CallsUpdateCamera(message)
                  THEN updateCamera(MyPlayerIdAfter(message),
                                    PlayersAfter(message),
                                    canvasW, canvasH, cameraX, cameraY)
                  ELSE <<cameraX, cameraY>>
       IN  cameraX' = cam[1] /\ cameraY' = cam[2]
    /\ sent' = <<>>
    /\ lastEvent' = [kind |-> "message", message |-> message,
                     decoded |-> DecodeStarted(message)]
    /\ UNCHANGED <<viewVars, inputVars, connVars, loopVars, release>>

(***************************************************************************)
(* loadWorldMap: the world map image finishes loading (onload) or fails    *)
(* to load (onerror, which logs).                                          *)
(***************************************************************************)
WorldImageLoaded ==
    /\ worldImage = "loading"
    /\ worldImage' = "complete"
    /\ sent' = <<>>
    /\ lastEvent' = [kind |-> "worldimage", ok |-> TRUE]
    /\ UNCHANGED <<worldVars, camVars, viewVars, inputVars, connVars,
                   lastFrameTime, frameRequests, release>>

WorldImageFailed ==
    /\ worldImage = "loading"
    /\ worldImage' = "broken"
    /\ sent' = <<>>
    /\ lastEvent' = [kind |-> "worldimage", ok |-> FALSE]
    /\ UNCHANGED <<worldVars, camVars, viewVars, inputVars, connVars,
                   lastFrameTime, frameRequests, release>>

(***************************************************************************)
(* The window's resize listener (setupCanvas).                             *)
(***************************************************************************)
Resize(w, h) ==
    /\ canvasW' = w
    /\ canvasH' = h
    /\ LET cam == updateCamera(myPlayerId, players, w, h, cameraX, cameraY)
       IN  cameraX' = cam[1] /\ cameraY' = cam[2]
    /\ sent' = <<>>
    /\ lastEvent' = [kind |-> "resize", w |-> w, h |-> h]
    /\ UNCHANGED <<worldVars, inputVars, connVars, loopVars, release>>

(***************************************************************************)
(* drawAvatar(player) with the camera at (cx, cy): whether the sprite and  *)
(* the username label of the player are drawn and, when they are, which    *)
(* frame is drawn, over which screen interval, and where the label is      *)
(* centred.  A frame index of the program (from 0) is position index + 1   *)
(* of the sequence.  An image that is not decoded (still loading, or       *)
(* broken) has width and height 0, so avatarWidth is NaN and ctx.drawImage *)
(* returns without drawing; the label code after it still runs.            *)
(***************************************************************************)
NothingDrawn == [sprite |-> FALSE, label |-> FALSE]

(***************************************************************************)
(* The decoded size <<width, height>> of a frame image, by its data.       *)
(***************************************************************************)
ImageSize(src) ==
    CASE src \in {"e0"} -> <<32, 64>>
      [] src \in {"s0", "s1"} -> <<64, 32>>
      [] OTHER -> <<32, 32>>

(***************************************************************************)
(* The size <<avatarWidth, avatarHeight>> drawAvatar gives a sprite.       *)
(***************************************************************************)
AvatarSize(img) ==
    LET width == ImageSize(img.src)[1]
        height == ImageSize(img.src)[2]
    IN  IF width > height
        THEN <<maxSize, (maxSize * height) \div width>>
        ELSE <<(maxSize * width) \div height, maxSize>>

(***************************************************************************)
(* ctx.drawImage(img, x, ., width, .) under a transform that maps canvas   *)
(* x to a * x + e: the screen interval the image covers, and whether it    *)
(* is mirrored.                                                            *)
(***************************************************************************)
Covered(a, e, x, width) ==
    [left |-> Min(a * x + e, a * (x + width) + e),
     right |-> Max(a * x + e, a * (x + width) + e),
     mirrored |-> a < 0]

(***************************************************************************)
(* The sprite draw of drawAvatar: setTransform(-1, 0, 0, 1, screenPos.x,   *)
(* 0) and drawImage at -avatarWidth / 2 for a west-facing player,          *)
(* drawImage at screenPos.x - avatarWidth / 2 otherwise.                   *)
(***************************************************************************)
SpriteSpanMirroredAboutOrigin(facing, screenX, avatarWidth) ==
    IF facing = "west"
    THEN Covered(-1, 0, screenX - avatarWidth \div 2, avatarWidth)
    ELSE Covered(1, 0, screenX - avatarWidth \div 2, avatarWidth)

SpriteSpan(facing, screenX, avatarWidth) ==
    IF facing = "west"
    THEN Covered(-1, screenX, 0 - avatarWidth \div 2, avatarWidth)
    ELSE Covered(1, 0, screenX - avatarWidth \div 2, avatarWidth)

worldToScreen(worldX, worldY, cx, cy) == <<worldX - cx, worldY - cy>>

drawAvatar(player, cx, cy) ==
    IF \/ "avatar" \notin DOMAIN player
       \/ player.avatar \notin DOMAIN avatars
       \/ "parsedFrames" \notin DOMAIN avatars[player.avatar]
    THEN NothingDrawn
    ELSE LET screenPos == worldToScreen(player.x, player.y, cx, cy)
             parsed == avatars[player.avatar].parsedFrames
         IN  IF \/ screenPos[1] < -CullMargin
                \/ screenPos[1] > canvasW + CullMargin
                \/ screenPos[2] < -CullMargin
                \/ screenPos[2] > canvasH + CullMargin
             THEN NothingDrawn
             ELSE IF \/ "facing" \notin DOMAIN player
                     \/ "animationFrame" \notin DOMAIN player
                  THEN NothingDrawn
                  ELSE LET direction == IF player.facing = "west"
                                        THEN "east"
                                        ELSE player.facing
                       IN  IF \/ direction \notin DOMAIN parsed
                              \/ player.animationFrame + 1
                                    \notin DOMAIN parsed[direction]
                           THEN NothingDrawn
                           ELSE LET avatarImg ==
                                      parsed[direction]
                                            [player.animationFrame + 1]
                                    span ==
                                      SpriteSpan(player.facing, screenPos[1],
                                                 AvatarSize(avatarImg)[1])
                                IN  IF avatarImg.state # "complete"
                                    THEN [sprite |-> FALSE, label |-> TRUE,
                                          labelX |-> screenPos[1]]
                                    ELSE
                                    [sprite |-> TRUE, label |-> TRUE,
                                     frame |-> avatarImg.src,
                                     width |-> AvatarSize(avatarImg)[1],
                                     left |-> span.left,
                                     right |-> span.right,
                                     mirrored |-> span.mirrored,
                                     labelX |-> screenPos[1]]

(***************************************************************************)
(* draw(): drawAvatar for every player of the roster (this.worldImage is   *)
(* an Image object from loadWorldMap on, so draw never returns early).     *)
(* Its first drawing call is ctx.drawImage(this.worldImage, ...) with      *)
(* finite arguments: it draws nothing while the image is loading and       *)
(* raises InvalidStateError when the image is broken.                      *)
(***************************************************************************)
draw(cx, cy) == [id \in DOMAIN players |-> drawAvatar(players[id], cx, cy)]

(***************************************************************************)
(* gameLoop(currentTime): one requestAnimationFrame callback.  The frame   *)
(* is executed when currentTime - lastFrameTime >= 1000 / targetFPS; the   *)
(* event records how often update() and draw() ran and what draw() drew.   *)
(* The callback ends with requestAnimationFrame(gameLoop) in either case;  *)
(* an exception raised by draw() leaves the callback before                *)
(* lastFrameTime is assigned and before the next callback is requested.    *)
(***************************************************************************)
FrameDueAfterFPSMillis(currentTime) ==
    currentTime - lastFrameTime >= targetFPS

FrameDue(currentTime) ==
    (currentTime - lastFrameTime) * targetFPS >= 1000

gameLoop(currentTime) ==
    /\ frameRequests > 0
    /\ currentTime <= MaxTime
    /\ LET cam == updateCamera(myPlayerId, players, canvasW, canvasH,
                               cameraX, cameraY)
       IN  IF ~FrameDue(currentTime)
           THEN /\ UNCHANGED <<camVars, lastFrameTime>>
                /\ frameRequests' = frameRequests - 1 + 1
                /\ lastEvent' = [kind |-> "frame", time |-> currentTime,
                                 drew |-> FALSE, updates |-> 0, draws |-> 0,
                                 threw |-> FALSE, drawn |-> EmptyMap]
           ELSE IF worldImage = "broken"
           THEN /\ cameraX' = cam[1] /\ cameraY' = cam[2]
                /\ UNCHANGED lastFrameTime
                /\ frameRequests' = frameRequests - 1
                /\ lastEvent' = [kind |-> "frame", time |-> currentTime,
                                 drew |-> FALSE, updates |-> 1, draws |-> 1,
                                 threw |-> TRUE, drawn |-> EmptyMap]
           ELSE /\ cameraX' = cam[1] /\ cameraY' = cam[2]
                /\ lastFrameTime' = currentTime
                /\ frameRequests' = frameRequests - 1 + 1
                /\ lastEvent' = [kind |-> "frame", time |-> currentTime,
                                 drew |-> TRUE, updates |-> 1, draws |-> 1,
                                 threw |-> FALSE,
                                 drawn |-> draw(cam[1], cam[2])]
    /\ sent' = <<>>
    /\ UNCHANGED <<worldVars, viewVars, inputVars, connVars, release,
                   worldImage>>

(***************************************************************************)
(* websocket.onopen: connectionStatus = 'connected', then joinGame().      *)
(***************************************************************************)
OnOpen ==
    /\ readyState = "CONNECTING"
    /\ readyState' = "OPEN"
    /\ connectionStatus' = "connected"
    /\ sent' = << <<"join_game", "Biraj">> >>
    /\ lastEvent' = [kind |-> "open"]
    /\ UNCHANGED <<worldVars, camVars, viewVars, inputVars, loopVars,
                   release>>

(***************************************************************************)
(* websocket.onclose and websocket.onerror.  The browser sets readyState   *)
(* to CLOSED before it fires error, and fires close after error.           *)
(***************************************************************************)
NoRelease == [active |-> FALSE, stops |-> 0, moves |-> 0]

OnCloseReconnects ==
    /\ \/ readyState \in {"CONNECTING", "OPEN"}
       \/ readyState = "CLOSED" /\ connectionStatus = "error"
    /\ readyState' = "CONNECTING"
    /\ connectionStatus' = "disconnected"
    /\ sent' = <<>>
    /\ lastEvent' = [kind |-> "close"]
    /\ release' = NoRelease
    /\ UNCHANGED <<worldVars, camVars, viewVars, inputVars, loopVars>>

OnClose ==
    /\ \/ readyState \in {"CONNECTING", "OPEN"}
       \/ readyState = "CLOSED" /\ connectionStatus = "error"
    /\ readyState' = "CLOSED"
    /\ connectionStatus' = "disconnected"
    /\ sent' = <<>>
    /\ lastEvent' = [kind |-> "close"]
    /\ release' = NoRelease
    /\ UNCHANGED <<worldVars, camVars, viewVars, inputVars, loopVars>>

OnError ==
    /\ readyState \in {"CONNECTING", "OPEN"}
    /\ readyState' = "CLOSED"
    /\ connectionStatus' = "error"
    /\ sent' = <<>>
    /\ lastEvent' = [kind |-> "error"]
    /\ release' = NoRelease
    /\ UNCHANGED <<worldVars, camVars, viewVars, inputVars, loopVars>>

(***************************************************************************)
(* sendMoveCommand and sendStopCommand: the sends and isMoving afterwards. *)
(***************************************************************************)
TransportOpen == readyState = "OPEN"

Directions(keys) ==
    LET up    == IF "ArrowUp" \in keys THEN << <<"move", "up">> >> ELSE <<>>
        down  == IF "ArrowDown" \in keys THEN << <<"move", "down">> >> ELSE <<>>
        left  == IF "ArrowLeft" \in keys THEN << <<"move", "left">> >> ELSE <<>>
        right == IF "ArrowRight" \in keys THEN << <<"move", "right">> >> ELSE <<>>
    IN  up \o down \o left \o right

sendMoveCommand(keys) ==
    IF ~TransportOpen
    THEN [sent |-> <<>>, isMoving |-> isMoving]
    ELSE [sent |-> Directions(keys),
          isMoving |-> IF Len(Directions(keys)) > 0 THEN TRUE ELSE isMoving]

sendStopCommand(moving) ==
    IF ~TransportOpen
    THEN [sent |-> <<>>, isMoving |-> moving]
    ELSE [sent |-> << <<"stop">> >>, isMoving |-> FALSE]

CountOf(msgs, action) ==
    Cardinality({i \in DOMAIN msgs : msgs[i][1] = action})

(***************************************************************************)
(* History of the releases that follow a held set {ArrowUp, ArrowRight}    *)
(* with the transport open: how many stop and move commands they sent.     *)
(***************************************************************************)
ReleaseAfter(isRelease, keysAfter, out) ==
    IF keysAfter = {"ArrowUp", "ArrowRight"}
    THEN [active |-> TransportOpen, stops |-> 0, moves |-> 0]
    ELSE IF release.active /\ isRelease /\ TransportOpen
    THEN [active |-> TRUE,
          stops |-> release.stops + CountOf(out, "stop"),
          moves |-> release.moves + CountOf(out, "move")]
    ELSE NoRelease

(***************************************************************************)
(* handleKeyDown(event) and handleKeyUp(event), event.code = code.         *)
(***************************************************************************)
KeyDownEffect(code) ==
    IF code \notin ArrowKeys
    THEN [keysPressed |-> keysPressed, sent |-> <<>>, isMoving |-> isMoving]
    ELSE LET r == sendMoveCommand(keysPressed \cup {code})
         IN  [keysPressed |-> keysPressed \cup {code},
              sent |-> r.sent, isMoving |-> r.isMoving]

handleKeyDownMovesLocally(code) ==
    /\ keysPressed' = KeyDownEffect(code).keysPressed
    /\ sent' = KeyDownEffect(code).sent
    /\ isMoving' = KeyDownEffect(code).isMoving
    /\ lastEvent' = [kind |-> "keydown", code |-> code,
                     changed |-> KeyDownEffect(code).keysPressed # keysPressed]
    /\ release' = IF code \in ArrowKeys
                  THEN ReleaseAfter(FALSE, KeyDownEffect(code).keysPressed,
                                    KeyDownEffect(code).sent)
                  ELSE release
    /\ players' = IF myPlayerId \in DOMAIN players /\ code \in ArrowKeys
                  THEN [players EXCEPT ![myPlayerId].x = @ + 5]
                  ELSE players
    /\ UNCHANGED <<myPlayerId, avatars, camVars, viewVars, clickTarget,
                   timers, connVars, loopVars>>

handleKeyDown(code) ==
    /\ keysPressed' = KeyDownEffect(code).keysPressed
    /\ sent' = KeyDownEffect(code).sent
    /\ isMoving' = KeyDownEffect(code).isMoving
    /\ lastEvent' = [kind |-> "keydown", code |-> code,
                     changed |-> KeyDownEffect(code).keysPressed # keysPressed]
    /\ release' = IF code \in ArrowKeys
                  THEN ReleaseAfter(FALSE, KeyDownEffect(code).keysPressed,
                                    KeyDownEffect(code).sent)
                  ELSE release
    /\ UNCHANGED <<worldVars, camVars, viewVars, clickTarget, timers,
                   connVars, loopVars>>

KeyUpEffectAlwaysStop(code) ==
    IF code \notin ArrowKeys
    THEN [keysPressed |-> keysPressed, sent |-> <<>>, isMoving |-> isMoving]
    ELSE LET r == sendStopCommand(isMoving)
         IN  [keysPressed |-> keysPressed \ {code},
              sent |-> r.sent, isMoving |-> r.isMoving]

KeyUpEffect(code) ==
    IF code \notin ArrowKeys
    THEN [keysPressed |-> keysPressed, sent |-> <<>>, isMoving |-> isMoving]
    ELSE IF Cardinality(keysPressed \ {code}) = 0
    THEN LET r == sendStopCommand(isMoving)
         IN  [keysPressed |-> keysPressed \ {code},
              sent |-> r.sent, isMoving |-> r.isMoving]
    ELSE [keysPressed |-> keysPressed \ {code},
          sent |-> <<>>, isMoving |-> isMoving]

handleKeyUp(code) ==
    /\ keysPressed' = KeyUpEffect(code).keysPressed
    /\ sent' = KeyUpEffect(code).sent
    /\ isMoving' = KeyUpEffect(code).isMoving
    /\ lastEvent' = [kind |-> "keyup", code |-> code,
                     changed |-> KeyUpEffect(code).keysPressed # keysPressed]
    /\ release' = IF code \in ArrowKeys
                  THEN ReleaseAfter(code \in keysPressed,
                                    KeyUpEffect(code).keysPressed,
                                    KeyUpEffect(code).sent)
                  ELSE release
    /\ UNCHANGED <<worldVars, camVars, viewVars, clickTarget, timers,
                   connVars, loopVars>>

(***************************************************************************)
(* startMovingToTarget with this.clickTarget = target: the target, the     *)
(* sends and isMoving afterwards, and whether it set a timeout (and with   *)
(* which delay in milliseconds).                                           *)
(* (websocket.send on a CLOSED socket returns without raising; a timeout   *)
(* exists only after the socket has been OPEN.)                            *)
(***************************************************************************)
DirectionTo(deltaX, deltaY) ==
    IF Abs(deltaX) > Abs(deltaY)
    THEN (IF deltaX > 0 THEN "right" ELSE "left")
    ELSE (IF deltaY > 0 THEN "down" ELSE "up")

startMovingToTargetReschedulesAlways(target) ==
    IF target = NoTarget \/ myPlayerId = NULL \/ myPlayerId \notin DOMAIN players
    THEN [clickTarget |-> target, sent |-> <<>>, isMoving |-> isMoving,
          scheduled |-> 1, delay |-> HomingDelay]
    ELSE LET deltaX == target[1] - players[myPlayerId].x
             deltaY == target[2] - players[myPlayerId].y
         IN  IF deltaX * deltaX + deltaY * deltaY
                    < ArrivalDistance * ArrivalDistance
             THEN [clickTarget |-> NoTarget,
                   sent |-> sendStopCommand(isMoving).sent,
                   isMoving |-> sendStopCommand(isMoving).isMoving,
                   scheduled |-> 0, delay |-> 0]
             ELSE [clickTarget |-> target,
                   sent |-> << <<"move", DirectionTo(deltaX, deltaY)>> >>,
                   isMoving |-> TRUE,
                   scheduled |-> 1, delay |-> HomingDelay]

startMovingToTargetKeepsTarget(target) ==
    IF target = NoTarget \/ myPlayerId = NULL \/ myPlayerId \notin DOMAIN players
    THEN [clickTarget |-> target, sent |-> <<>>, isMoving |-> isMoving,
          scheduled |-> 0, delay |-> 0]
    ELSE LET deltaX == target[1] - players[myPlayerId].x
             deltaY == target[2] - players[myPlayerId].y
         IN  IF deltaX * deltaX + deltaY * deltaY
                    < ArrivalDistance * ArrivalDistance
             THEN [clickTarget |-> target,
                   sent |-> sendStopCommand(isMoving).sent,
                   isMoving |-> sendStopCommand(isMoving).isMoving,
                   scheduled |-> 0, delay |-> 0]
             ELSE [clickTarget |-> target,
                   sent |-> << <<"move", DirectionTo(deltaX, deltaY)>> >>,
                   isMoving |-> TRUE,
                   scheduled |-> 1, delay |-> HomingDelay]

startMovingToTargetArrivesAt20(target) ==
    IF target = NoTarget \/ myPlayerId = NULL \/ myPlayerId \notin DOMAIN players
    THEN [clickTarget |-> target, sent |-> <<>>, isMoving |-> isMoving,
          scheduled |-> 0, delay |-> 0]
    ELSE LET deltaX == target[1] - players[myPlayerId].x
             deltaY == target[2] - players[myPlayerId].y
         IN  IF deltaX * deltaX + deltaY * deltaY
                    <= ArrivalDistance * ArrivalDistance
             THEN [clickTarget |-> NoTarget,
                   sent |-> sendStopCommand(isMoving).sent,
                   isMoving |-> sendStopCommand(isMoving).isMoving,
                   scheduled |-> 0, delay |-> 0]
             ELSE [clickTarget |-> target,
                   sent |-> << <<"move", DirectionTo(deltaX, deltaY)>> >>,
                   isMoving |-> TRUE,
                   scheduled |-> 1, delay |-> HomingDelay]

startMovingToTarget(target) ==
    IF target = NoTarget \/ myPlayerId = NULL \/ myPlayerId \notin DOMAIN players
    THEN [clickTarget |-> target, sent |-> <<>>, isMoving |-> isMoving,
          scheduled |-> 0, delay |-> 0]
    ELSE LET deltaX == target[1] - players[myPlayerId].x
             deltaY == target[2] - players[myPlayerId].y
         IN  IF deltaX * deltaX + deltaY * deltaY
                    < ArrivalDistance * ArrivalDistance
             THEN [clickTarget |-> NoTarget,
                   sent |-> sendStopCommand(isMoving).sent,
                   isMoving |-> sendStopCommand(isMoving).isMoving,
                   scheduled |-> 0, delay |-> 0]
             ELSE [clickTarget |-> target,
                   sent |-> << <<"move", DirectionTo(deltaX, deltaY)>> >>,
                   isMoving |-> TRUE,
                   scheduled |-> 1, delay |-> HomingDelay]

(***************************************************************************)
(* handleCanvasClick at canvas point (clickX, clickY), with                *)
(* sendClickMoveCommand.                                                   *)
(***************************************************************************)
ClickWorldNoClamp(clickX, clickY) ==
    << clickX + cameraX, clickY + cameraY >>

ClickWorld(clickX, clickY) ==
    << Max(0, Min(clickX + cameraX, worldWidth)),
       Max(0, Min(clickY + cameraY, worldHeight)) >>

ClickEffect(clickX, clickY) ==
    IF ~TransportOpen
    THEN [clickTarget |-> ClickWorld(clickX, clickY), sent |-> <<>>,
          isMoving |-> isMoving, scheduled |-> 0, delay |-> 0]
    ELSE startMovingToTarget(ClickWorld(clickX, clickY))

handleCanvasClick(clickX, clickY) ==
    /\ timers + ClickEffect(clickX, clickY).scheduled <= MaxTimers
    /\ clickTarget' = ClickEffect(clickX, clickY).clickTarget
    /\ sent' = ClickEffect(clickX, clickY).sent
    /\ isMoving' = ClickEffect(clickX, clickY).isMoving
    /\ timers' = timers + ClickEffect(clickX, clickY).scheduled
    /\ lastEvent' = [kind |-> "click", x |-> clickX, y |-> clickY,
                     delay |-> ClickEffect(clickX, clickY).delay]
    /\ UNCHANGED <<worldVars, camVars, viewVars, keysPressed, connVars,
                   loopVars, release>>

(***************************************************************************)
(* A timeout set by startMovingToTarget fires: startMovingToTarget().      *)
(***************************************************************************)
HomingTimeout ==
    /\ timers > 0
    /\ clickTarget' = startMovingToTarget(clickTarget).clickTarget
    /\ sent' = startMovingToTarget(clickTarget).sent
    /\ isMoving' = startMovingToTarget(clickTarget).isMoving
    /\ timers' = timers - 1 + startMovingToTarget(clickTarget).scheduled
    /\ lastEvent' = [kind |-> "timeout",
                     keysHeld |-> keysPressed # {},
                     hadTarget |-> clickTarget # NoTarget,
                     delay |-> startMovingToTarget(clickTarget).delay]
    /\ UNCHANGED <<worldVars, camVars, viewVars, keysPressed, connVars,
                   loopVars, release>>

(***************************************************************************)
(* The state the constructor leaves: the canvas has the window's size.     *)
(***************************************************************************)
InitWith(viewports) ==
    /\ myPlayerId = NULL
    /\ players = EmptyMap
    /\ avatars = EmptyMap
    /\ cameraX = 0
    /\ cameraY = 0
    /\ \E v \in viewports : canvasW = v[1] /\ canvasH = v[2]
    /\ keysPressed = {}
    /\ isMoving = FALSE
    /\ clickTarget = NoTarget
    /\ connectionStatus = "connecting"
    /\ readyState = "CONNECTING"
    /\ lastFrameTime = 0
    /\ frameRequests = 1
    /\ worldImage = "loading"
    /\ timers = 0
    /\ sent = <<>>
    /\ lastEvent = [kind |-> "init"]
    /\ release = NoRelease

(***************************************************************************)
(* Spec: the world-state store and the camera under server messages,       *)
(* resizes and render-clock callbacks.                                     *)
(***************************************************************************)
Init == InitWith(Viewports)

Next ==
    \/ OnOpen
    \/ \E m \in WorldMessages : handleServerMessage(m)
    \/ \E v \in Viewports : Resize(v[1], v[2])
    \/ \E d \in TickDeltas : gameLoop(lastFrameTime + d)

Spec == Init /\ [][Next]_vars

(***************************************************************************)
(* SpecInput: the keyboard and click-to-move paths with the transport's    *)
(* callbacks, for one local player in an 800 x 600 viewport.               *)
(***************************************************************************)
InputRecs == {[x |-> 400, y |-> 300], [x |-> 690, y |-> 300]}
InputMessages ==
    {[action |-> "join_game", success |-> TRUE, playerId |-> "p1",
      players |-> [i \in {"p1"} |-> p], avatars |-> av] :
        p \in {[x |-> 400, y |-> 300]}, av \in Catalogs \ {EmptyMap}}
    \cup {[action |-> "players_moved", players |-> [i \in {"p1"} |-> p]] :
        p \in InputRecs}
    \cup {[action |-> "player_left", playerId |-> "p1"]}
    \cup {[action |-> "ping"]}
KeyCodes == ArrowKeys \cup {"KeyA"}
ClickPoints == {<<410, 305>>, <<700, 300>>}

InitInput == InitWith({<<800, 600>>})

NextInput ==
    \/ OnOpen
    \/ OnClose
    \/ OnError
    \/ \E m \in InputMessages : handleServerMessage(m)
    \/ \E code \in KeyCodes : handleKeyDown(code)
    \/ \E code \in KeyCodes : handleKeyUp(code)
    \/ \E pt \in ClickPoints : handleCanvasClick(pt[1], pt[2])
    \/ HomingTimeout

SpecInput == InitInput /\ [][NextInput]_vars

(***************************************************************************)
(* SpecHoming: the click-to-move path alone, for one local player the      *)
(* server places at (500, 500) or (790, 790), in a viewport smaller than   *)
(* the world or larger than it.  A click lands inside the canvas.          *)
(***************************************************************************)
HomingRecs == {[x |-> 500, y |-> 500], [x |-> 790, y |-> 790]}
HomingMessages ==
    {[action |-> "join_game", success |-> TRUE, playerId |-> "p1",
      players |-> [i \in {"p1"} |-> p], avatars |-> EmptyMap] :
        p \in {[x |-> 500, y |-> 500]}}
    \cup {[action |-> "players_moved", players |-> [i \in {"p1"} |-> p]] :
        p \in HomingRecs}
    \cup {[action |-> "player_left", playerId |-> "p1"]}
HomingClicks ==
    { <<10, 10>>, <<410, 310>>, <<420, 300>>, <<700, 590>>, <<600, 500>>,
      <<400, 10>>, <<2590, 2590>> }

InitHoming == InitWith({<<800, 600>>, <<2600, 2600>>})

NextHoming ==
    \/ OnOpen
    \/ OnClose
    \/ \E m \in HomingMessages : handleServerMessage(m)
    \/ \E pt \in HomingClicks :
          /\ pt[1] <= canvasW /\ pt[2] <= canvasH
          /\ handleCanvasClick(pt[1], pt[2])
    \/ HomingTimeout

SpecHoming == InitHoming /\ [][NextHoming]_vars

(***************************************************************************)
(* SpecHomingFair: SpecHoming where a pending timeout eventually fires     *)
(* (the browser runs every timer set with setTimeout).                     *)
(***************************************************************************)
SpecHomingFair == SpecHoming /\ WF_vars(HomingTimeout)

(***************************************************************************)
(* SpecHandlers: every kind of handler of the client at once, each with a  *)
(* small set of inputs: transport events, server messages for the local    *)
(* player and one other, one arrow key, clicks, homing timeouts, resizes    *)
(* and render-clock callbacks.                                             *)
(***************************************************************************)
HandlerMessages ==
    {[action |-> "join_game", success |-> TRUE, playerId |-> "p1",
      players |-> [i \in {"p1"} |-> p], avatars |-> av] :
        p \in {[x |-> 400, y |-> 300]}, av \in Catalogs \ {EmptyMap}}
    \cup {[action |-> "join_game", success |-> FALSE]}
    \cup {[action |-> "player_joined", id |-> "p2", player |-> p,
           avatarName |-> "fox", avatar |-> a] :
        p \in InputRecs, a \in AvatarDefs}
    \cup {[action |-> "players_moved", players |-> [i \in {"p1"} |-> p]] :
        p \in InputRecs}
    \cup {[action |-> "player_left", playerId |-> "p1"]}
HandlerViewports == {<<800, 600>>, <<1200, 2400>>}

InitHandlers == InitWith({<<800, 600>>})

NextHandlers ==
    \/ OnOpen
    \/ OnClose
    \/ \E m \in HandlerMessages : handleServerMessage(m)
    \/ \E code \in {"ArrowUp"} : handleKeyDown(code)
    \/ \E code \in {"ArrowUp"} : handleKeyUp(code)
    \/ \E pt \in ClickPoints : handleCanvasClick(pt[1], pt[2])
    \/ HomingTimeout
    \/ \E v \in HandlerViewports : Resize(v[1], v[2])
    \/ \E d \in TickDeltas : gameLoop(lastFrameTime + d)

SpecHandlers == InitHandlers /\ [][NextHandlers]_vars

(***************************************************************************)
(* SpecRender: the render loop over a roster of two players with the       *)
(* fields drawAvatar reads, in an 800 x 600 viewport.  The local player p1 *)
(* stands at (400, 300), so the camera is at (0, 0); the catalog holds     *)
(* "fox" (one north, two south, one east frame) and no "cat".              *)
(***************************************************************************)
MaxFrames == 4
RenderRec(x, y, avatar, facing, animationFrame) ==
    [x |-> x, y |-> y, avatar |-> avatar, facing |-> facing,
     animationFrame |-> animationFrame, username |-> "ann"]
RenderRecs ==
    { RenderRec(400, 300, "fox", "south", 1),
      RenderRec(500, 500, "fox", "west", 0),
      RenderRec(420, 300, "cat", "south", 0),
      RenderRec(420, 300, "fox", "north", 1),
      RenderRec(-50, 300, "fox", "east", 0),
      RenderRec(851, 300, "fox", "east", 0) }
RenderMessages ==
    {[action |-> "join_game", success |-> TRUE, playerId |-> "p1",
      players |-> [i \in {"p1"} |-> RenderRec(400, 300, "fox", "south", 1)],
      avatars |-> av] : av \in Catalogs \ {EmptyMap}}
    \cup {[action |-> "player_joined", id |-> "p2", player |-> p,
           avatarName |-> "fox", avatar |-> a] :
        p \in RenderRecs, a \in AvatarDefs}
    \cup {[action |-> "players_moved", players |-> [i \in {id} |-> p]] :
        id \in PlayerIds, p \in RenderRecs}
    \cup {[action |-> "player_left", playerId |-> "p2"]}

InitRender == InitWith({<<800, 600>>})

NextRender ==
    \/ OnOpen
    \/ \E m \in RenderMessages : handleServerMessage(m)
    \/ \E n \in {"fox"}, d \in SpriteDirections, i \in 1..MaxFrames,
          ok \in BOOLEAN : ImageDecoded(n, d, i, ok)
    \/ \E d \in TickDeltas : gameLoop(lastFrameTime + d)

SpecRender == InitRender /\ [][NextRender]_vars

(***************************************************************************)
(* SpecDecode: the loading of the world map image, the decoding of the     *)
(* four south frames of avatar "fox" and the drawing of a south-facing     *)
(* local player at each animation index.                                   *)
(***************************************************************************)
DecodeDefs ==
    {[frames |-> [north |-> <<>>, south |-> <<"s0", "s1", "s2", "s3">>,
                  east |-> <<>>]]}
DecodeRecs ==
    {RenderRec(400, 300, "fox", "south", f) : f \in 0..(MaxFrames - 1)}
DecodeMessages ==
    {[action |-> "join_game", success |-> TRUE, playerId |-> "p1",
      players |-> [i \in {"p1"} |-> RenderRec(400, 300, "fox", "south", 0)],
      avatars |-> [n \in {"fox"} |-> a]] : a \in DecodeDefs}
    \cup {[action |-> "players_moved", players |-> [i \in {"p1"} |-> p]] :
        p \in DecodeRecs}

InitDecode == InitWith({<<800, 600>>})

NextDecode ==
    \/ OnOpen
    \/ WorldImageLoaded
    \/ WorldImageFailed
    \/ \E m \in DecodeMessages : handleServerMessage(m)
    \/ \E i \in 1..MaxFrames, ok \in BOOLEAN :
          ImageDecoded("fox", "south", i, ok)
    \/ \E d \in TickDeltas : gameLoop(lastFrameTime + d)

SpecDecode == InitDecode /\ [][NextDecode]_vars

(***************************************************************************)
(* Which callback ran last.                                                *)
(***************************************************************************)
LastMessageIs(action) ==
    lastEvent.kind = "message" /\ lastEvent.message.action = action

LocalPresent == myPlayerId # NULL /\ myPlayerId \in DOMAIN players

CameraRan ==
    \/ lastEvent.kind = "resize"
    \/ lastEvent.kind = "frame" /\ lastEvent.drew
    \/ lastEvent.kind = "message" /\ CallsUpdateCamera(lastEvent.message)

(***************************************************************************)
(* C1: a players_moved message leaves the record of every roster id that   *)
(* is absent from its players map as it was, and every id present in the   *)
(* map holds exactly the message's record afterwards.                      *)
(***************************************************************************)
C1_PlayersMovedReplacesWhole ==
    [][ LastMessageIs("players_moved")' =>
            LET delta == lastEvent'.message.players
            IN  /\ DOMAIN players' = DOMAIN players \cup DOMAIN delta
                /\ \A id \in DOMAIN players \ DOMAIN delta :
                        players'[id] = players[id]
                /\ \A id \in DOMAIN delta : players'[id] = delta[id]
      ]_vars

C1_Witness ==
    /\ LastMessageIs("players_moved")
    /\ \E a \in DOMAIN players \ DOMAIN lastEvent.message.players :
            "facing" \in DOMAIN players[a]
    /\ \E b \in DOMAIN lastEvent.message.players :
            "facing" \notin DOMAIN players[b]

(***************************************************************************)
(* C2: a player_left message whose playerId is not in the roster leaves    *)
(* the roster, the local player id, the avatar catalog and the camera      *)
(* unchanged.                                                              *)
(***************************************************************************)
C2_UnknownPlayerLeftIsNoOp ==
    [][ (LastMessageIs("player_left")'
            /\ lastEvent'.message.playerId \notin DOMAIN players)
        => UNCHANGED <<players, myPlayerId, avatars, cameraX, cameraY>>
      ]_vars

C2_Witness ==
    /\ LastMessageIs("player_left")
    /\ lastEvent.message.playerId = "p9"
    /\ DOMAIN players = PlayerIds
    /\ myPlayerId # NULL
    /\ DOMAIN avatars # {}

(***************************************************************************)
(* C3: after updateCamera has run with the local player in the roster and  *)
(* the world larger than the viewport on both axes, the camera lies in     *)
(* [0, worldWidth - width] x [0, worldHeight - height], wherever the       *)
(* player is.                                                              *)
(***************************************************************************)
C3_CameraClampedInLargerWorld ==
    (CameraRan /\ LocalPresent
        /\ worldWidth > canvasW /\ worldHeight > canvasH)
    => /\ 0 <= cameraX /\ cameraX <= worldWidth - canvasW
       /\ 0 <= cameraY /\ cameraY <= worldHeight - canvasH

C3_Witness ==
    /\ CameraRan /\ LocalPresent
    /\ worldWidth > canvasW /\ worldHeight > canvasH
    /\ players[myPlayerId].x < 0
    /\ players[myPlayerId].y > worldHeight
    /\ cameraX = 0
    /\ cameraY = worldHeight - canvasH

(***************************************************************************)
(* C4: after updateCamera has run with the local player in the roster, on  *)
(* an axis where the world is not larger than the viewport the camera is   *)
(* the unclamped player coordinate minus half the viewport, whatever the   *)
(* other axis is.                                                          *)
(***************************************************************************)
C4_CameraUnclampedInSmallerWorld ==
    (CameraRan /\ LocalPresent)
    => /\ worldWidth <= canvasW
            => cameraX = players[myPlayerId].x - canvasW \div 2
       /\ worldHeight <= canvasH
            => cameraY = players[myPlayerId].y - canvasH \div 2

C4_Witness ==
    /\ CameraRan /\ LocalPresent
    /\ worldWidth <= canvasW /\ worldHeight > canvasH
    /\ cameraX < 0
    /\ cameraX = players[myPlayerId].x - canvasW \div 2
    /\ cameraY = worldHeight - canvasH

(***************************************************************************)
(* C5: on each axis where the world is larger than the viewport, the       *)
(* stored camera offset lies in [0, world size - viewport size].           *)
(***************************************************************************)
C5_CameraAlwaysInsideWorld ==
    /\ worldWidth > canvasW
        => 0 <= cameraX /\ cameraX <= worldWidth - canvasW
    /\ worldHeight > canvasH
        => 0 <= cameraY /\ cameraY <= worldHeight - canvasH

(***************************************************************************)
(* C6: with the transport open, from held keys {ArrowUp, ArrowRight} the   *)
(* releases of the held keys send no move command, send no stop command    *)
(* while a key is still held, and have sent exactly one stop command once  *)
(* the held set is empty.                                                  *)
(***************************************************************************)
C6_ReleasingBothSendsOneStop ==
    release.active
    => /\ release.moves = 0
       /\ release.stops = (IF keysPressed = {} THEN 1 ELSE 0)

C6_Witness ==
    /\ release.active
    /\ keysPressed = {}
    /\ release.stops = 1
    /\ lastEvent.kind = "keyup"
    /\ lastEvent.code = "ArrowUp"
    /\ sent = << <<"stop">> >>

(***************************************************************************)
(* C7: with the transport open, every key-down or key-up of an arrow key   *)
(* that changes the held set and leaves it non-empty sends exactly one     *)
(* move command per direction of the resulting held set.                   *)
(***************************************************************************)
DirectionOf(code) ==
    CASE code = "ArrowUp" -> "up"
      [] code = "ArrowDown" -> "down"
      [] code = "ArrowLeft" -> "left"
      [] code = "ArrowRight" -> "right"

OneMovePerDirection(msgs, keys) ==
    /\ Len(msgs) = Cardinality(keys)
    /\ \A code \in keys :
            \E i \in DOMAIN msgs : msgs[i] = <<"move", DirectionOf(code)>>

LastIsKeyEvent == lastEvent.kind \in {"keydown", "keyup"}

C7_HeldSetChangeSendsMoves ==
    [][ (LastIsKeyEvent' /\ lastEvent'.changed /\ TransportOpen
            /\ keysPressed' # {})
        => OneMovePerDirection(sent', keysPressed')
      ]_vars

(***************************************************************************)
(* C8: with the transport open, a key event sends a stop command exactly   *)
(* when it is a key-up that takes the held set from non-empty to empty.    *)
(***************************************************************************)
C8_StopExactlyWhenSetBecomesEmpty ==
    [][ (LastIsKeyEvent' /\ TransportOpen)
        => (CountOf(sent', "stop") > 0
                <=> (lastEvent'.kind = "keyup"
                        /\ keysPressed # {} /\ keysPressed' = {}))
      ]_vars

(***************************************************************************)
(* C9: while an arrow key is held and a homing target is set, a homing     *)
(* re-evaluation sends no move and no stop command.                        *)
(***************************************************************************)
C9_KeyboardSuppressesHoming ==
    [][ (lastEvent'.kind = "timeout" /\ keysPressed # {}
            /\ clickTarget # NoTarget)
        => sent' = <<>>
      ]_vars

(***************************************************************************)
(* C10: a click target is present only while a homing re-evaluation is     *)
(* scheduled.                                                              *)
(***************************************************************************)
C10_TargetOnlyWhileHoming ==
    clickTarget # NoTarget => timers > 0

(***************************************************************************)
(* C11: no message is handed to websocket.send while the transport is not  *)
(* open (the sends of a callback happen in the state the callback leaves   *)
(* the transport in).                                                      *)
(***************************************************************************)
C11_NoSendUnlessOpen ==
    sent # <<>> => readyState = "OPEN"

(***************************************************************************)
(* C12: once a successful join_game response has been applied, a further   *)
(* successful join_game response leaves the local player id, the roster    *)
(* and the avatar catalog as they were.                                    *)
(***************************************************************************)
C12_SecondJoinIgnored ==
    [][ (LastMessageIs("join_game")' /\ lastEvent'.message.success
            /\ myPlayerId # NULL)
        => UNCHANGED <<myPlayerId, players, avatars>>
      ]_vars

(***************************************************************************)
(* C13: a join_game response with success false puts the session into the *)
(* error state and leaves the local player id, the roster, the avatar      *)
(* catalog and the camera unchanged.                                       *)
(***************************************************************************)
C13_FailedJoinIsSessionError ==
    [][ (LastMessageIs("join_game")' /\ ~lastEvent'.message.success)
        => /\ connectionStatus' = "error"
           /\ UNCHANGED <<myPlayerId, players, avatars, cameraX, cameraY>>
      ]_vars

(***************************************************************************)
(* C14: a message whose action is none of join_game, player_joined,        *)
(* players_moved, player_left changes neither the local player id, the     *)
(* roster, the catalog, the camera, the click target, the held keys nor    *)
(* the session state, and leaves the transport delivering messages.        *)
(***************************************************************************)
KnownActions == {"join_game", "player_joined", "players_moved", "player_left"}

LastIsUnknownMessage ==
    /\ lastEvent.kind = "message"
    /\ lastEvent.message.action \notin KnownActions

C14_UnknownActionIgnored ==
    [][ LastIsUnknownMessage'
        => /\ UNCHANGED <<myPlayerId, players, avatars, cameraX, cameraY>>
           /\ UNCHANGED <<clickTarget, keysPressed, connectionStatus>>
           /\ readyState' = "OPEN"
      ]_vars

C14_Witness ==
    /\ LastIsUnknownMessage
    /\ LocalPresent
    /\ avatars # EmptyMap
    /\ cameraX = 290
    /\ clickTarget # NoTarget
    /\ keysPressed # {}

(***************************************************************************)
(* C15: decoding is started at most once per avatar name: a message never  *)
(* starts the decoding of a name that is already in the catalog, whose     *)
(* decoding was started when it entered the catalog.                       *)
(***************************************************************************)
C15_DecodeOncePerName ==
    [][ lastEvent'.kind = "message"
        => lastEvent'.decoded \cap DOMAIN avatars = {}
      ]_vars

(***************************************************************************)
(* C16 as stated: a click at canvas point (sx, sy) with the camera at      *)
(* (cx, cy) leaves the homing target at                                    *)
(* (clamp(sx + cx, 0, worldWidth), clamp(sy + cy, 0, worldHeight)).        *)
(***************************************************************************)
Clamp(v, lo, hi) == IF v < lo THEN lo ELSE IF v > hi THEN hi ELSE v

ClickedPoint ==
    << Clamp(lastEvent'.x + cameraX, 0, worldWidth),
       Clamp(lastEvent'.y + cameraY, 0, worldHeight) >>

Near(pt) ==
    /\ LocalPresent
    /\ (pt[1] - players[myPlayerId].x) * (pt[1] - players[myPlayerId].x)
         + (pt[2] - players[myPlayerId].y) * (pt[2] - players[myPlayerId].y)
       < 400

C16_ClickSetsTarget ==
    [][ lastEvent'.kind = "click"
        => clickTarget' = ClickedPoint
      ]_vars

(***************************************************************************)
(* C16 amended: the click leaves the target at the clamped world point,    *)
(* except that with the transport open and the local player within 20      *)
(* units of that point the handler clears the target again.                *)
(***************************************************************************)
C16_ClickSetsTargetUnlessArrived ==
    [][ lastEvent'.kind = "click"
        => IF readyState = "OPEN" /\ Near(ClickedPoint)
           THEN clickTarget' = NoTarget
           ELSE clickTarget' = ClickedPoint
      ]_vars

C16_Witness ==
    /\ lastEvent.kind = "click"
    /\ lastEvent.x = 10 /\ lastEvent.y = 10
    /\ cameraX = 100 /\ cameraY = 200
    /\ clickTarget = <<110, 210>>

(***************************************************************************)
(* A homing evaluation is a run of startMovingToTarget with a target set   *)
(* and the local player in the roster: a fired timeout, or the first step  *)
(* a click takes with the transport open.                                  *)
(***************************************************************************)
HomingEvaluation ==
    /\ LocalPresent
    /\ \/ lastEvent'.kind = "timeout" /\ clickTarget # NoTarget
       \/ lastEvent'.kind = "click" /\ readyState = "OPEN"

EvaluatedTarget ==
    IF lastEvent'.kind = "timeout" THEN clickTarget ELSE ClickedPoint

TimersLeft == IF lastEvent'.kind = "timeout" THEN timers - 1 ELSE timers

(***************************************************************************)
(* C17 as stated: a homing evaluation that finds the local player less     *)
(* than 20 units from the target clears the target, emits a stop command   *)
(* and schedules no further evaluation.                                    *)
(***************************************************************************)
C17_ArrivalClearsAndStops ==
    [][ (HomingEvaluation /\ Near(EvaluatedTarget))
        => /\ clickTarget' = NoTarget
           /\ sent' = << <<"stop">> >>
           /\ timers' = TimersLeft
      ]_vars

(***************************************************************************)
(* C17 amended: such an evaluation clears the target and schedules no      *)
(* further evaluation; it emits one stop command when the transport is     *)
(* open and nothing when it is not.                                        *)
(***************************************************************************)
C17_ArrivalClearsAndStopsIfOpen ==
    [][ (HomingEvaluation /\ Near(EvaluatedTarget))
        => /\ clickTarget' = NoTarget
           /\ sent' = IF readyState = "OPEN" THEN << <<"stop">> >> ELSE <<>>
           /\ timers' = TimersLeft
           /\ lastEvent'.delay = 0
      ]_vars

C17_Witness ==
    /\ lastEvent.kind = "timeout"
    /\ lastEvent.hadTarget
    /\ LocalPresent
    /\ clickTarget = NoTarget
    /\ sent = << <<"stop">> >>

(***************************************************************************)
(* C18: a homing evaluation that finds the local player 20 units or more   *)
(* from the target emits exactly one move command, horizontal (right when  *)
(* deltaX > 0, else left) when |deltaX| > |deltaY| and vertical (down when *)
(* deltaY > 0, else up) otherwise, keeps the target and schedules exactly  *)
(* one evaluation 200 ms later, so that an evaluation stays pending.       *)
(***************************************************************************)
ExpectedDirection(pt) ==
    LET dx == pt[1] - players[myPlayerId].x
        dy == pt[2] - players[myPlayerId].y
    IN  IF dx * dx > dy * dy
        THEN (IF dx > 0 THEN "right" ELSE "left")
        ELSE (IF dy > 0 THEN "down" ELSE "up")

C18_FarSendsOneMoveAndReschedules ==
    [][ (HomingEvaluation /\ ~Near(EvaluatedTarget))
        => /\ sent' = << <<"move", ExpectedDirection(EvaluatedTarget)>> >>
           /\ clickTarget' = EvaluatedTarget
           /\ timers' = TimersLeft + 1
           /\ timers' > 0
           /\ lastEvent'.delay = 200
      ]_vars

C18_Witness ==
    /\ lastEvent.kind = "timeout"
    /\ LocalPresent
    /\ players[myPlayerId].x = 500 /\ players[myPlayerId].y = 500
    /\ clickTarget = <<700, 700>>
    /\ sent = << <<"move", "down">> >>
    /\ timers > 0

(***************************************************************************)
(* C19: a render-clock callback with timestamp t runs update and draw zero *)
(* times when t - lastFrameTime < 1000 / targetFPS and exactly once each   *)
(* when t - lastFrameTime >= 1000 / targetFPS; lastFrameTime becomes t     *)
(* when the callback drew (draw() returned) and keeps its value otherwise. *)
(***************************************************************************)
C19_OnePassPerDueCallback ==
    [][ lastEvent'.kind = "frame"
        => /\ IF 1000 <= targetFPS * (lastEvent'.time - lastFrameTime)
              THEN lastEvent'.updates = 1 /\ lastEvent'.draws = 1
              ELSE /\ lastEvent'.updates = 0 /\ lastEvent'.draws = 0
                   /\ ~lastEvent'.drew
                   /\ UNCHANGED <<cameraX, cameraY>>
           /\ lastFrameTime' = IF lastEvent'.drew
                               THEN lastEvent'.time
                               ELSE lastFrameTime
      ]_vars

C19_Witness ==
    /\ lastEvent.kind = "frame"
    /\ lastEvent.draws = 0
    /\ lastFrameTime = 17
    /\ lastEvent.time = 33

(***************************************************************************)
(* C20: in every executed frame the username label of every roster player  *)
(* inside the culling margin is drawn, whether or not the player's sprite  *)
(* frame resolves.                                                         *)
(***************************************************************************)
InsideMargin(player) ==
    /\ player.x - cameraX >= -50 /\ player.x - cameraX <= canvasW + 50
    /\ player.y - cameraY >= -50 /\ player.y - cameraY <= canvasH + 50

C20_LabelDrawnInsideMargin ==
    (lastEvent.kind = "frame" /\ lastEvent.drew)
    => \A id \in DOMAIN players :
           InsideMargin(players[id]) => lastEvent.drawn[id].label

(***************************************************************************)
(* C21: the session state is one of connecting, joined (the program's      *)
(* name for the established state is 'connected'), disconnected, error,    *)
(* and it is the established state only once a successful join_game        *)
(* response has been applied, that is once the local player id is set.     *)
(***************************************************************************)
C21_JoinedOnlyAfterJoinSuccess ==
    /\ connectionStatus \in {"connecting", "connected", "disconnected",
                              "error"}
    /\ connectionStatus = "connected" => myPlayerId # NULL

(***************************************************************************)
(* C22: a close event leaves the session state disconnected and an error   *)
(* event leaves it error; the transport never goes back to connecting, a   *)
(* disconnected session never becomes connecting or connected again, and   *)
(* join_game is sent only by the one open event of the connection.         *)
(***************************************************************************)
C22_NoReconnection ==
    [][ /\ lastEvent'.kind = "close" => connectionStatus' = "disconnected"
        /\ lastEvent'.kind = "error" => connectionStatus' = "error"
        /\ readyState # "CONNECTING" => readyState' # "CONNECTING"
        /\ connectionStatus = "disconnected"
             => connectionStatus' \notin {"connecting", "connected"}
        /\ CountOf(sent', "join_game") > 0
             => /\ readyState = "CONNECTING"
                /\ CountOf(sent', "join_game") = 1
      ]_vars

C22_Witness ==
    /\ lastEvent.kind = "close"
    /\ connectionStatus = "disconnected"
    /\ readyState = "CLOSED"
    /\ LocalPresent

(***************************************************************************)
(* C23: in an executed frame a west-facing player whose sprite is drawn    *)
(* with width aw at screen position sx = x - cameraX gets a frame of the   *)
(* avatar's east set, mirrored, over the screen interval                   *)
(* [sx - aw / 2, sx + aw / 2], whose centre is sx.                         *)
(***************************************************************************)
EastFrames(player) ==
    {avatars[player.avatar].frames.east[i] :
        i \in DOMAIN avatars[player.avatar].frames.east}

C23_WestSpriteCentredOnPlayer ==
    (lastEvent.kind = "frame" /\ lastEvent.drew)
    => \A id \in DOMAIN players :
          (players[id].facing = "west" /\ lastEvent.drawn[id].sprite)
          => LET d == lastEvent.drawn[id]
                 sx == players[id].x - cameraX
             IN  /\ d.frame \in EastFrames(players[id])
                 /\ d.mirrored
                 /\ 2 * d.left = 2 * sx - d.width
                 /\ 2 * d.right = 2 * sx + d.width
                 /\ d.left + d.right = 2 * sx

C23_Witness ==
    /\ lastEvent.kind = "frame" /\ lastEvent.drew
    /\ cameraX = 0
    /\ \E id \in DOMAIN players :
          /\ players[id].facing = "west" /\ players[id].x = 500
          /\ lastEvent.drawn[id].sprite
          /\ lastEvent.drawn[id].left + lastEvent.drawn[id].right = 1000

(***************************************************************************)
(* C24: the frames of an avatar are decoded independently.  Every frame of *)
(* a catalog entry has an image whose decoding was started; the end of one *)
(* decoding changes the state of that image only, to complete when it      *)
(* succeeded whatever became of the other frames; and an executed frame    *)
(* draws the sprite of a player exactly when the image of the player's own *)
(* animation index is complete.                                            *)
(***************************************************************************)
ImageState(av, name, direction, index) ==
    av[name].parsedFrames[direction][index].state

AllFramesStarted(av) ==
    \A n \in DOMAIN av : \A d \in SpriteDirections :
        /\ DOMAIN av[n].parsedFrames[d] = DOMAIN av[n].frames[d]
        /\ \A i \in DOMAIN av[n].frames[d] :
              av[n].parsedFrames[d][i].src = av[n].frames[d][i]

OwnFrameComplete(player) ==
    /\ player.avatar \in DOMAIN avatars
    /\ player.animationFrame + 1
          \in DOMAIN avatars[player.avatar].parsedFrames[player.facing]
    /\ ImageState(avatars, player.avatar, player.facing,
                  player.animationFrame + 1) = "complete"

C24_FramesDecodeIndependently ==
    [][ /\ AllFramesStarted(avatars')
        /\ lastEvent'.kind = "image"
           => /\ DOMAIN avatars' = DOMAIN avatars
              /\ \A n \in DOMAIN avatars : \A d \in SpriteDirections :
                 \A i \in DOMAIN avatars[n].parsedFrames[d] :
                    ImageState(avatars', n, d, i) =
                       IF /\ n = lastEvent'.name
                          /\ d = lastEvent'.direction
                          /\ i = lastEvent'.index
                       THEN (IF lastEvent'.ok THEN "complete" ELSE "broken")
                       ELSE ImageState(avatars, n, d, i)
        /\ (lastEvent'.kind = "frame" /\ lastEvent'.drew)
           => \A id \in DOMAIN players :
                 lastEvent'.drawn[id].sprite <=> OwnFrameComplete(players[id])
      ]_vars

C24_Witness ==
    /\ lastEvent.kind = "frame" /\ lastEvent.drew
    /\ LocalPresent
    /\ players[myPlayerId].animationFrame = 3
    /\ lastEvent.drawn[myPlayerId].sprite
    /\ ImageState(avatars, "fox", "south", 3) = "broken"
    /\ \A i \in {1, 2, 4} : ImageState(avatars, "fox", "south", i) = "complete"

(***************************************************************************)
(* C25: the render loop stays running: exactly one render-clock callback   *)
(* is pending before and after every event, in particular after a callback *)
(* that drew nothing; and an executed frame comes at least                 *)
(* 1000 / targetFPS ms after the executed frame before it.                 *)
(***************************************************************************)
C25_LoopKeepsRunning ==
    [][ /\ frameRequests = 1 /\ frameRequests' = 1
        /\ (lastEvent'.kind = "frame" /\ lastEvent'.drew)
           => targetFPS * (lastEvent'.time - lastFrameTime) >= 1000
      ]_vars

(***************************************************************************)
(* C26: after a handler that can change the local player's position or    *)
(* the viewport size (join_game success, player_joined with the local id,  *)
(* players_moved, resize) and leaves the local player in the roster, the   *)
(* stored camera is the camera function of the local player's position,    *)
(* the viewport size and the world size.                                   *)
(***************************************************************************)
ExpectedCamera(player) ==
    << IF worldWidth > canvasW
       THEN Clamp(player.x - canvasW \div 2, 0, worldWidth - canvasW)
       ELSE player.x - canvasW \div 2,
       IF worldHeight > canvasH
       THEN Clamp(player.y - canvasH \div 2, 0, worldHeight - canvasH)
       ELSE player.y - canvasH \div 2 >>

PositionOrViewportHandler ==
    \/ lastEvent.kind = "resize"
    \/ /\ lastEvent.kind = "message"
       /\ \/ lastEvent.message.action = "join_game"
             /\ lastEvent.message.success
          \/ lastEvent.message.action = "players_moved"
          \/ lastEvent.message.action = "player_joined"
             /\ lastEvent.message.id = myPlayerId

C26_CameraIsDerivedState ==
    (PositionOrViewportHandler /\ LocalPresent)
    => <<cameraX, cameraY>> = ExpectedCamera(players[myPlayerId])

(***************************************************************************)
(* C27: the roster (ids and every field of every player), the local player *)
(* id and the avatar definitions are changed by server message handlers    *)
(* only: a step of any other handler (transport open or close, key down,   *)
(* key up, click, homing timeout, resize, render-clock callback) leaves    *)
(* them as they were.                                                      *)
(***************************************************************************)
AvatarDefinitions(av) == [n \in DOMAIN av |-> av[n].frames]

C27_WorldChangedByMessagesOnly ==
    [][ lastEvent'.kind # "message"
        => /\ UNCHANGED <<myPlayerId, players>>
           /\ AvatarDefinitions(avatars') = AvatarDefinitions(avatars)
      ]_vars

C27_Witness ==
    /\ lastEvent.kind = "keydown"
    /\ lastEvent.changed
    /\ sent # <<>>
    /\ LocalPresent
    /\ "p2" \in DOMAIN players
    /\ clickTarget # NoTarget

(***************************************************************************)
(* C28: a homing timeout that fires while the click target is cleared      *)
(* sends nothing, changes no state of the client and sets no timeout; so   *)
(* from a state with the target cleared, either a new click sets a target  *)
(* or eventually no homing timeout is pending.                             *)
(***************************************************************************)
C28_ClearedTargetEndsHoming ==
    /\ [][ (lastEvent'.kind = "timeout" /\ clickTarget = NoTarget)
           => /\ sent' = <<>>
              /\ timers' = timers - 1
              /\ lastEvent'.delay = 0
              /\ UNCHANGED <<worldVars, camVars, viewVars, keysPressed,
                             isMoving, clickTarget, connVars, loopVars>>
         ]_vars
    /\ (clickTarget = NoTarget) ~> (timers = 0 \/ clickTarget # NoTarget)

C28_Witness ==
    /\ lastEvent.kind = "timeout"
    /\ ~lastEvent.hadTarget
    /\ clickTarget = NoTarget
    /\ LocalPresent
    /\ timers = 0

(***************************************************************************)
(* C29: at most one homing timeout is pending at any time.                 *)
(***************************************************************************)
C29_AtMostOneHomingTimer ==
    timers <= 1

(***************************************************************************)
(* C30: no move and no stop command is sent while the local player id is   *)
(* not set, that is before a successful join_game response was applied.    *)
(***************************************************************************)
C30_NoMovementBeforeJoin ==
    (CountOf(sent, "move") + CountOf(sent, "stop") > 0) => myPlayerId # NULL

(***************************************************************************)
(* C31: in every state where no arrow key is held and no click target is   *)
(* set, isMoving is false.                                                 *)
(***************************************************************************)
C31_MovingOnlyWithInput ==
    (keysPressed = {} /\ clickTarget = NoTarget) => ~isMoving

====
